---- MODULE Spec2Model ----
(***************************************************************************)
(* Lagos Software Consulting landing page.                                 *)
(*                                                                         *)
(* Two independent state machines of the repository:                       *)
(*   - the build-time asset optimisation pipeline (build/optimize.js):     *)
(*     main -> processAssets -> glob / optimizeImage / optimizeCSS /       *)
(*     optimizeJS / copyFile -> summary -> process.exit;                   *)
(*   - the browser-side contact form handler (js/lazy-loading.js, second   *)
(*     IIFE): handleSubmit, isRateLimited, setSubmittingState.             *)
(***************************************************************************)
EXTENDS Naturals, Integers, Sequences, FiniteSets, TLC

VARIABLES
    \* ---- build pipeline (build/optimize.js) ----
    pc,           \* position of main/processAssets
    tree,         \* the source tree: the set of files under SOURCE_DIR
    srcReadable,  \* whether SOURCE_DIR can be read by the directory walk
    globStrict,   \* whether the installed glob raises directory-read errors
    dirs,         \* directories that exist under BUILD_DIR (<<>> is BUILD_DIR)
    outFiles,     \* files written under BUILD_DIR
    cur,          \* which kind processAssets is at (index into Kinds)
    found,        \* imageFiles / cssFiles / jsFiles / htmlFiles
    idx,          \* position of the current for...of loop in its file list
    inflight,     \* transforms that were called and have not settled yet
    results,      \* processAssets' results object
    summary,      \* the final summary, once logged
    logs,         \* lines written by logger, in order
    exitCode,     \* argument of process.exit, NoExit before
    called,       \* history: the transformer calls, in order
    faults,       \* history: the steps that failed, per file
    resizes,      \* history: the width each rendition was resized to
    \* ---- contact form (js/lazy-loading.js) ----
    isSubmitting,        \* state.isSubmitting
    submissionCount,     \* state.submissionCount
    lastSubmissionTime,  \* state.lastSubmissionTime
    buttonDisabled,      \* elements.submitButton.disabled
    formMessage,         \* what elements.formMessage shows
    formValid,           \* whether the current field values pass validateForm
    honeypot,            \* value of the hidden 'website' field, as characters
    now,                 \* Date.now()
    requests,            \* the fetch calls that have not settled yet
    posts,               \* history: start time of every fetch call
    \* ---- lazy loader (js/lazy-loading.js, first IIFE) ----
    loadingQueue,    \* this.loadingQueue
    loadedElements,  \* this.loadedElements
    retryMap,        \* this.retryMap, 0 where it has no entry
    classList,       \* element.classList, the classes the loader sets
    observed,        \* elements the IntersectionObserver observes
    delayTimers,     \* pending loadDelay timers of handleIntersection, per element
    loads,           \* load attempts in flight (a temporary Image loading)
    retryTimers,     \* onLoadError calls waiting for retryDelay, per element
    triggers,        \* history: intersection events and loadNow calls so far
    attempts,        \* history: load attempts started, per element
    lazyloaded,      \* history: 'lazyloaded' events dispatched, per element
    lazyerror,       \* history: 'lazyerror' events dispatched, per element
    \* ---- structured data (js/schema.js) ----
    schemaPc,        \* where initializeSchemas is: "idle", "each" or "returned"
    schemaAt,        \* the entry of schemas the forEach is at
    schemaResults,   \* the results object of the current call
    headPresent,     \* whether the document has a head element
    headScripts,     \* ids of the JSON-LD scripts in the head, in document order
    schemaRuns,      \* history: calls of initializeSchemas so far
    \* ---- service cards (js/animations.js) ----
    isInitialized,         \* state.isInitialized
    prefersReducedMotion,  \* state.prefersReducedMotion
    expandedCards,         \* state.expandedCards
    ariaExpanded,          \* each card's aria-expanded attribute, "absent" without one
    cardClasses,           \* each card's classList, the classes the script sets
    contentStyle,          \* inline maxHeight and opacity of each card's content
    expandable,            \* whether the card holds .service-benefits/.service-technologies
    toggles,               \* history: calls of toggleCardExpansion so far
    lastToggle             \* history: the card of the step before and its state then

buildVars == <<pc, tree, srcReadable, globStrict, dirs, outFiles, cur, found,
               idx, inflight, results, summary, logs, exitCode, called, faults,
               resizes>>
formVars == <<isSubmitting, submissionCount, lastSubmissionTime, buttonDisabled,
              formMessage, formValid, honeypot, now, requests, posts>>
lazyVars == <<loadingQueue, loadedElements, retryMap, classList, observed, delayTimers,
              loads, retryTimers, triggers, attempts, lazyloaded, lazyerror>>
schemaVars == <<schemaPc, schemaAt, schemaResults, headPresent, headScripts, schemaRuns>>
cardVars == <<isInitialized, prefersReducedMotion, expandedCards, ariaExpanded,
              cardClasses, contentStyle, expandable, toggles, lastToggle>>
vars == <<buildVars, formVars, lazyVars, schemaVars, cardVars>>

(***************************************************************************)
(* Bounds of the model                                                     *)
(***************************************************************************)
MaxFiles == 2        \* files in the source tree
MaxPosts == 5        \* form POSTs followed from page load
StartTime == 100000  \* Date.now() at page load
Tick == 20000        \* how far the clock moves in one step
MaxNow == 180000     \* the clock stops here
MaxTriggers == 3     \* intersection events and loadNow calls followed per page
MaxRuns == 2         \* calls of initializeSchemas followed per page
MaxToggles == 4      \* calls of toggleCardExpansion followed per page

(***************************************************************************)
(* Generic helpers                                                         *)
(***************************************************************************)
Min(a, b) == IF a <= b THEN a ELSE b

Range(s) == {s[i] : i \in 1..Len(s)}

\* every ordering of the finite set S, as sequences without repetition
Orderings(S) ==
    {s \in [1..Cardinality(S) -> S] : \A i, j \in 1..Cardinality(S) : s[i] = s[j] => i = j}

RECURSIVE SumSize(_)
SumSize(s) == IF s = <<>> THEN 0 ELSE Head(s).size + SumSize(Tail(s))

(***************************************************************************)
(* CONFIG and the source tree                                              *)
(***************************************************************************)
MAX_IMAGE_WIDTH == 1920

SUPPORTED_IMAGE_FORMATS == {".jpg", ".jpeg", ".png", ".svg", ".webp"}

\* a file of the source tree: directory (segments below SOURCE_DIR), base name,
\* extension, size in bytes and, for rasters, natural width
File(dir, base, ext, bytes, width) ==
    [dir |-> dir, base |-> base, ext |-> ext, bytes |-> bytes, width |-> width]

NoFile == File(<<>>, "", "", 0, 0)

Universe ==
    { File(<<"img">>, "hero", ".jpg", 4000, 3000),
      File(<<"img">>, "hero", ".png", 2400, 800),
      File(<<"img">>, "banner", ".webp", 1500, 2560),
      File(<<>>, "logo", ".svg", 500, 0),
      File(<<>>, "old", ".bmp", 900, 640),
      File(<<"styles">>, "main", ".css", 800, 0),
      File(<<"styles">>, "print", ".css", 200, 0),
      File(<<"js">>, "app", ".js", 1200, 0),
      File(<<"js">>, "nav", ".js", 600, 0),
      File(<<"build">>, "optimize", ".js", 1600, 0),
      File(<<"scripts">>, "deploy", ".js", 300, 0),
      File(<<"lib", "node_modules">>, "dep", ".js", 700, 0),
      File(<<>>, "index", ".html", 1000, 0),
      File(<<"pages">>, "about", ".html", 640, 0) }

Kinds == <<"images", "css", "js", "html">>

\* the glob patterns of each kind, as the extensions they match
Patterns(kind) ==
    CASE kind = "images" -> SUPPORTED_IMAGE_FORMATS
      [] kind = "css" -> {".css"}
      [] kind = "js" -> {".js"}
      [] kind = "html" -> {".html"}

\* the ignore globs of each kind: 'name/**' is anchored at the cwd, so it
\* names a top-level directory
Ignored(kind) ==
    IF kind = "js"
    THEN {"node_modules", "dist", "build", ".git", "scripts"}
    ELSE {"node_modules", "dist", "build", ".git"}

\* the files glob(patterns, {cwd, ignore, absolute}) matches in tree t
Matches(kind, t) ==
    {f \in t : /\ f.ext \in Patterns(kind)
               /\ ~(f.dir # <<>> /\ f.dir[1] \in Ignored(kind))}

(***************************************************************************)
(* logger                                                                  *)
(***************************************************************************)
LogLine(level, stream, message, path, meta) ==
    [timestamp |-> TRUE, level |-> level, stream |-> stream,
     message |-> message, path |-> path, meta |-> meta]

\* logger.info: console.log writes to standard out
LoggerInfo(lg, message, path, meta) ==
    Append(lg, LogLine("INFO", "stdout", message, path, meta))

\* a logger.warn built on console.log
LoggerWarnToStdout(lg, message, path, meta) ==
    Append(lg, LogLine("WARN", "stdout", message, path, meta))

\* logger.warn: console.warn writes to standard error
LoggerWarn(lg, message, path, meta) ==
    Append(lg, LogLine("WARN", "stderr", message, path, meta))

\* logger.error: console.error writes to standard error
LoggerError(lg, message, path, meta) ==
    Append(lg, LogLine("ERROR", "stderr", message, path, meta))

(***************************************************************************)
(* The output directory                                                    *)
(***************************************************************************)
\* a path under BUILD_DIR; map marks the sibling '<output>.map'
OutPath(dir, base, ext, map) == [dir |-> dir, base |-> base, ext |-> ext, map |-> map]

\* fs.writeFile / fs.copyFile: the file at path now holds what was written last
WriteFile(ofs, path, from, size) ==
    {o \in ofs : o.path # path} \cup {[path |-> path, from |-> from, size |-> size]}

\* d and every directory above it, up to BUILD_DIR (mkdir {recursive: true})
Ancestors(d) == {SubSeq(d, 1, k) : k \in 0..Len(d)}

\* an ensureDirectory without fs.access: mkdir and the log line on every call
MkdirAlways(d, ds, lg) ==
    {[threw |-> FALSE, dirs |-> ds \cup Ancestors(d),
      logs |-> LoggerInfo(lg, "Created directory", File(d, "", "", 0, 0), 0)],
     [threw |-> TRUE, dirs |-> ds, logs |-> lg]}

\* ensureDirectory(dirPath): the outcomes it can have from directories ds, logs lg
ensureDirectory(d, ds, lg) ==
    IF d \in ds
    THEN {[threw |-> FALSE, dirs |-> ds, logs |-> lg]}
    ELSE {[threw |-> FALSE, dirs |-> ds \cup Ancestors(d),
           logs |-> LoggerInfo(lg, "Created directory", File(d, "", "", 0, 0), 0)],
          [threw |-> TRUE, dirs |-> ds, logs |-> lg]}

(***************************************************************************)
(* The encoders, as deterministic functions of their input                 *)
(***************************************************************************)
\* line 153; without Math.min the natural width would be the target
NaturalWidth(f) == f.width
targetWidth(f) == Min(f.width, MAX_IMAGE_WIDTH)

SvgoSize(f) == (f.bytes * 4) \div 5
WebpSize(f) == (f.bytes * targetWidth(f)) \div (f.width * 4)
JpegSize(f) == (f.bytes * targetWidth(f)) \div (f.width * 2)
PngSize(f) == (f.bytes * targetWidth(f) * 3) \div (f.width * 4)
CssSize(f) == (f.bytes * 3) \div 4
JsSize(f) == f.bytes \div 2

(***************************************************************************)
(* processAssets and main                                                  *)
(***************************************************************************)
NoExit == -1

KindOf(k) == Kinds[k]

\* the transformer the loop of kind k calls first
FirstStep(k) ==
    CASE KindOf(k) = "images" -> "enter"
      [] KindOf(k) = "css" -> "process"
      [] KindOf(k) = "js" -> "minify"
      [] KindOf(k) = "html" -> "copy"

ErrorType(kind) ==
    CASE kind = "images" -> "image"
      [] kind = "css" -> "css"
      [] kind = "js" -> "js"
      [] kind = "html" -> "html"

CatchMessage(kind) ==
    CASE kind = "images" -> "Image optimization failed"
      [] kind = "css" -> "CSS optimization failed"
      [] kind = "js" -> "JavaScript optimization failed"
      [] kind = "html" -> "HTML copy failed"

ThrownMessage(kind) ==
    CASE kind = "images" -> "Failed to optimize image"
      [] kind = "css" -> "Failed to optimize CSS"
      [] kind = "js" -> "Failed to optimize JavaScript"
      [] kind = "html" -> "Failed to copy file"

FoundMessage(kind) ==
    CASE kind = "images" -> "Found images to optimize"
      [] kind = "css" -> "Found CSS files to optimize"
      [] kind = "js" -> "Found JavaScript files to optimize"
      [] kind = "html" -> "Found HTML files to copy"

EmptyResults ==
    [images |-> <<>>, css |-> <<>>, js |-> <<>>, html |-> <<>>, other |-> <<>>,
     errors |-> <<>>]

InitBuild ==
    /\ pc = "start"
    /\ tree \in {t \in SUBSET Universe : Cardinality(t) <= MaxFiles}
    /\ srcReadable \in BOOLEAN
    /\ globStrict \in BOOLEAN
    /\ dirs \in {{}, {<<>>}}
    /\ outFiles = {}
    /\ cur = 1
    /\ found = [k \in Range(Kinds) |-> <<>>]
    /\ idx = 1
    /\ inflight = {}
    /\ results = EmptyResults
    /\ summary = <<>>
    /\ logs = <<>>
    /\ exitCode = NoExit
    /\ called = <<>>
    /\ faults = {}
    /\ resizes = {}

\* processAssets' catch (552-555) rethrows into main's catch (573-576)
FatalExit(lg) ==
    /\ logs' = LoggerError(LoggerError(lg, "Asset optimization process failed", NoFile, 0),
                           "Build optimization failed with fatal error", NoFile, 0)
    /\ exitCode' = 1
    /\ pc' = "exited"

\* main() up to the first await inside processAssets: ensureDirectory(BUILD_DIR)
Start ==
    /\ pc = "start"
    /\ LET lg == LoggerInfo(LoggerInfo(logs, "Build optimization started", NoFile, 0),
                            "Starting asset optimization", NoFile, 0)
       IN \E r \in ensureDirectory(<<>>, dirs, lg) :
            IF r.threw
            THEN /\ FatalExit(r.logs)
                 /\ UNCHANGED dirs
            ELSE /\ dirs' = r.dirs
                 /\ logs' = r.logs
                 /\ pc' = "glob"
                 /\ UNCHANGED exitCode
    /\ UNCHANGED <<tree, srcReadable, globStrict, outFiles, cur, found, idx, inflight,
                   results, summary, called, faults, resizes, formVars, lazyVars, schemaVars, cardVars>>

\* await glob(...) of the current kind, and the 'Found ...' line after it
Glob ==
    /\ pc = "glob"
    /\ LET kind == KindOf(cur) IN
         IF ~srcReadable /\ globStrict
         THEN /\ FatalExit(logs)
              /\ UNCHANGED <<found, idx>>
         ELSE \E list \in (IF srcReadable THEN Orderings(Matches(kind, tree)) ELSE {<<>>}) :
                /\ found' = [found EXCEPT ![kind] = list]
                /\ idx' = 1
                /\ logs' = LoggerInfo(logs, FoundMessage(kind), NoFile, Len(list))
                /\ pc' = "loop"
                /\ UNCHANGED exitCode
    /\ UNCHANGED <<tree, srcReadable, globStrict, dirs, outFiles, cur, inflight,
                   results, summary, called, faults, resizes, formVars, lazyVars, schemaVars, cardVars>>

\* 'await' in front of each transformer call: the loop resumes once it settled
AwaitDropped == TRUE
Awaited == inflight = {}

\* for (const path of files): the next iteration calls the kind's transformer
LoopNext ==
    /\ pc = "loop"
    /\ idx <= Len(found[KindOf(cur)])
    /\ Awaited
    /\ LET f == found[KindOf(cur)][idx] IN
         /\ inflight' = inflight \cup
                {[kind |-> KindOf(cur), file |-> f, step |-> FirstStep(cur), out |-> <<>>]}
         /\ called' = Append(called, [kind |-> KindOf(cur), file |-> f])
    /\ idx' = idx + 1
    /\ UNCHANGED <<pc, tree, srcReadable, globStrict, dirs, outFiles, cur, found,
                   results, summary, logs, exitCode, faults, resizes, formVars, lazyVars, schemaVars, cardVars>>

\* the loop of the current kind is over: on to the next glob, or to the summary
LoopExit ==
    /\ pc = "loop"
    /\ idx > Len(found[KindOf(cur)])
    /\ Awaited
    /\ IF cur < Len(Kinds)
       THEN /\ cur' = cur + 1
            /\ pc' = "glob"
       ELSE /\ pc' = "report"
            /\ UNCHANGED cur
    /\ UNCHANGED <<tree, srcReadable, globStrict, dirs, outFiles, found, idx, inflight,
                   results, summary, logs, exitCode, called, faults, resizes, formVars, lazyVars, schemaVars, cardVars>>

\* an assignment in place of the push: results.<kind> = recs
ReturnOverwrites(tx, recs, lg, ds, ofs) ==
    /\ results' = [results EXCEPT ![tx.kind] = recs]
    /\ inflight' = inflight \ {tx}
    /\ logs' = lg
    /\ dirs' = ds
    /\ outFiles' = ofs
    /\ UNCHANGED <<pc, exitCode>>

\* the transformer returned recs: results.<kind>.push(...)
Return(tx, recs, lg, ds, ofs) ==
    /\ results' = [results EXCEPT ![tx.kind] = @ \o recs]
    /\ inflight' = inflight \ {tx}
    /\ logs' = lg
    /\ dirs' = ds
    /\ outFiles' = ofs
    /\ UNCHANGED <<pc, exitCode>>

\* had the loop no catch of its own, the error would reach processAssets' catch
CatchRethrows(tx, lg, ds, ofs) ==
    /\ FatalExit(lg)
    /\ inflight' = inflight \ {tx}
    /\ dirs' = ds
    /\ outFiles' = ofs
    /\ UNCHANGED results

\* an empty catch block: the error is dropped, nothing is logged or recorded
CatchSwallows(tx, lg, ds, ofs) ==
    /\ inflight' = inflight \ {tx}
    /\ logs' = lg
    /\ dirs' = ds
    /\ outFiles' = ofs
    /\ UNCHANGED <<results, pc, exitCode>>

\* a catch that also drops what the kind has collected so far
CatchDropsCollected(tx, lg, ds, ofs) ==
    /\ results' = [results EXCEPT ![tx.kind] = <<>>,
                                  !.errors =
                      Append(@, [type |-> ErrorType(tx.kind), path |-> tx.file,
                                 error |-> ThrownMessage(tx.kind)])]
    /\ inflight' = inflight \ {tx}
    /\ logs' = LoggerError(lg, CatchMessage(tx.kind), tx.file, 0)
    /\ dirs' = ds
    /\ outFiles' = ofs
    /\ UNCHANGED <<pc, exitCode>>

\* the transformer threw (its own catch wrapped the error in an OptimizationError):
\* the catch of the loop logs it and records it in results.errors
Catch(tx, lg, ds, ofs) ==
    /\ results' = [results EXCEPT !.errors =
                      Append(@, [type |-> ErrorType(tx.kind), path |-> tx.file,
                                 error |-> ThrownMessage(tx.kind)])]
    /\ inflight' = inflight \ {tx}
    /\ logs' = LoggerError(lg, CatchMessage(tx.kind), tx.file, 0)
    /\ dirs' = ds
    /\ outFiles' = ofs
    /\ UNCHANGED <<pc, exitCode>>

\* the transformer goes on to its next await
Goto(tx, step, out, lg, ds, ofs) ==
    /\ inflight' = (inflight \ {tx}) \cup {[tx EXCEPT !.step = step, !.out = out]}
    /\ logs' = lg
    /\ dirs' = ds
    /\ outFiles' = ofs
    /\ UNCHANGED <<results, pc, exitCode>>

\* history: the step of f's transform that failed, and how
Fault(tx, what) == faults' = faults \cup {[kind |-> tx.kind, file |-> tx.file, what |-> what]}

unchangedByTransform ==
    UNCHANGED <<tree, srcReadable, globStrict, cur, found, idx, summary, called, resizes,
                formVars, lazyVars, schemaVars, cardVars>>

\* the same for the steps that call image.resize(targetWidth, ...)
unchangedByResize ==
    UNCHANGED <<tree, srcReadable, globStrict, cur, found, idx, summary, called, formVars, lazyVars, schemaVars, cardVars>>

\* history: image.resize(width, null, ...) was called for a rendition of tx's file
Resized(tx, format, width) ==
    resizes' = resizes \cup {[file |-> tx.file, format |-> format, width |-> width]}

(***************************************************************************)
(* optimizeImage                                                           *)
(***************************************************************************)
\* lines 95-107: the extension check and ensureDirectory(outputDir)
ImageEnter ==
    /\ \E tx \in inflight :
         /\ tx.kind = "images" /\ tx.step = "enter"
         /\ IF tx.file.ext \notin SUPPORTED_IMAGE_FORMATS
            THEN /\ Return(tx, <<>>,
                           LoggerWarn(logs, "Unsupported image format", tx.file, 0),
                           dirs, outFiles)
                 /\ UNCHANGED faults
            ELSE \E r \in ensureDirectory(tx.file.dir, dirs, logs) :
                   IF r.threw
                   THEN Catch(tx, r.logs, r.dirs, outFiles) /\ Fault(tx, "mkdir")
                   ELSE /\ Goto(tx, IF tx.file.ext = ".svg" THEN "svg" ELSE "webp", <<>>,
                                r.logs, r.dirs, outFiles)
                        /\ UNCHANGED faults
    /\ unchangedByTransform

\* lines 111-148: the vector branch
ImageSvg ==
    /\ \E tx \in inflight :
         /\ tx.kind = "images" /\ tx.step = "svg"
         /\ \E ok \in BOOLEAN :
              IF ok
              THEN LET path == OutPath(tx.file.dir, tx.file.base, ".svg", FALSE)
                       size == SvgoSize(tx.file)
                   IN /\ Return(tx, <<[path |-> path, format |-> "svg", size |-> size]>>,
                                LoggerInfo(logs, "Optimized SVG", tx.file, size),
                                dirs, WriteFile(outFiles, path, tx.file, size))
                      /\ UNCHANGED faults
              ELSE Catch(tx, logs, dirs, outFiles) /\ Fault(tx, "svg")
    /\ unchangedByTransform

\* lines 221-230: the raster branch returns what it collected
ImageDone(tx, out, ofs) ==
    Return(tx, out, LoggerInfo(logs, "Optimized image", tx.file, SumSize(out)), dirs, ofs)

\* lines 172 and 193: the sources that get a second, re-encoded rendition
JpegOnlyRendition(ext) == ext \in {".jpg", ".jpeg"}
SecondRendition(ext) == ext \in {".jpg", ".jpeg", ".png"}

\* lines 150-170: metadata, resize, the webp rendition
ImageWebp ==
    /\ \E tx \in inflight :
         /\ tx.kind = "images" /\ tx.step = "webp"
         /\ \E ok \in BOOLEAN :
              IF ok
              THEN LET path == OutPath(tx.file.dir, tx.file.base, ".webp", FALSE)
                       size == WebpSize(tx.file)
                       out == Append(tx.out, [path |-> path, format |-> "webp", size |-> size])
                       ofs == WriteFile(outFiles, path, tx.file, size)
                   IN /\ IF SecondRendition(tx.file.ext)
                         THEN Goto(tx, "second", out, logs, dirs, ofs)
                         ELSE ImageDone(tx, out, ofs)
                      /\ Resized(tx, "webp", targetWidth(tx.file))
                      /\ UNCHANGED faults
              ELSE /\ Catch(tx, logs, dirs, outFiles) /\ Fault(tx, "webp")
                   /\ UNCHANGED resizes
    /\ unchangedByResize

\* lines 172-219: the re-encoded .jpg or .png rendition
ImageSecond ==
    /\ \E tx \in inflight :
         /\ tx.kind = "images" /\ tx.step = "second"
         /\ \E ok \in BOOLEAN :
              IF ok
              THEN LET jpeg == tx.file.ext \in {".jpg", ".jpeg"}
                       path == OutPath(tx.file.dir, tx.file.base,
                                       IF jpeg THEN ".jpg" ELSE ".png", FALSE)
                       size == IF jpeg THEN JpegSize(tx.file) ELSE PngSize(tx.file)
                       out == Append(tx.out, [path |-> path,
                                              format |-> IF jpeg THEN "jpeg" ELSE "png",
                                              size |-> size])
                   IN /\ ImageDone(tx, out, WriteFile(outFiles, path, tx.file, size))
                      /\ Resized(tx, IF jpeg THEN "jpeg" ELSE "png", targetWidth(tx.file))
                      /\ UNCHANGED faults
              ELSE /\ Catch(tx, logs, dirs, outFiles) /\ Fault(tx, "second")
                   /\ UNCHANGED resizes
    /\ unchangedByResize

(***************************************************************************)
(* optimizeCSS                                                             *)
(***************************************************************************)
\* lines 245-269: read the stylesheet and run postcss
CssProcess ==
    /\ \E tx \in inflight :
         /\ tx.kind = "css" /\ tx.step = "process"
         /\ \E ok \in BOOLEAN :
              IF ok
              THEN Goto(tx, "write", <<>>, logs, dirs, outFiles) /\ UNCHANGED faults
              ELSE Catch(tx, logs, dirs, outFiles) /\ Fault(tx, "process")
    /\ unchangedByTransform

\* lines 271-287: ensureDirectory, the stylesheet, its map when there is one
CssWrite ==
    /\ \E tx \in inflight :
         /\ tx.kind = "css" /\ tx.step = "write"
         /\ \E r \in ensureDirectory(tx.file.dir, dirs, logs) :
              IF r.threw
              THEN Catch(tx, r.logs, r.dirs, outFiles) /\ Fault(tx, "mkdir")
              ELSE LET path == OutPath(tx.file.dir, tx.file.base, ".css", FALSE)
                       mapPath == OutPath(tx.file.dir, tx.file.base, ".css", TRUE)
                       size == CssSize(tx.file)
                       ofs == WriteFile(outFiles, path, tx.file, size)
                       lg == LoggerInfo(r.logs, "Optimized CSS", tx.file, size)
                       rec == <<[path |-> path, size |-> size]>>
                   IN \E end \in {"writeThrows", "noMap", "mapThrows", "map"} :
                        CASE end = "writeThrows" ->
                               Catch(tx, r.logs, r.dirs, outFiles) /\ Fault(tx, "write")
                          [] end = "mapThrows" ->
                               Catch(tx, r.logs, r.dirs, ofs) /\ Fault(tx, "map")
                          [] end = "noMap" ->
                               Return(tx, rec, lg, r.dirs, ofs) /\ UNCHANGED faults
                          [] end = "map" ->
                               /\ Return(tx, rec, lg, r.dirs,
                                         WriteFile(ofs, mapPath, tx.file, 0))
                               /\ UNCHANGED faults
    /\ unchangedByTransform

(***************************************************************************)
(* optimizeJS                                                              *)
(***************************************************************************)
\* line 328: no code from the minifier is an error of its own
RunsOnWithoutCode(code) == FALSE
NoOutputThrows(code) == ~code

\* lines 302-330: read the script and run terser
JsMinify ==
    /\ \E tx \in inflight :
         /\ tx.kind = "js" /\ tx.step = "minify"
         /\ \E end \in {"throws", "noCode", "code"} :
              /\ IF end = "throws" \/ NoOutputThrows(end = "code")
                 THEN Catch(tx, logs, dirs, outFiles)
                 ELSE Goto(tx, "write", <<>>, logs, dirs, outFiles)
              /\ IF end = "code" THEN UNCHANGED faults ELSE Fault(tx, end)
    /\ unchangedByTransform

\* lines 332-355: ensureDirectory, the script, its source map
JsWrite ==
    /\ \E tx \in inflight :
         /\ tx.kind = "js" /\ tx.step = "write"
         /\ \E r \in ensureDirectory(tx.file.dir, dirs, logs) :
              IF r.threw
              THEN Catch(tx, r.logs, r.dirs, outFiles) /\ Fault(tx, "mkdir")
              ELSE LET path == OutPath(tx.file.dir, tx.file.base, ".js", FALSE)
                       mapPath == OutPath(tx.file.dir, tx.file.base, ".js", TRUE)
                       size == JsSize(tx.file)
                       ofs == WriteFile(outFiles, path, tx.file, size)
                   IN \E end \in {"writeThrows", "mapThrows", "map"} :
                        CASE end = "writeThrows" ->
                               Catch(tx, r.logs, r.dirs, outFiles) /\ Fault(tx, "write")
                          [] end = "mapThrows" ->
                               Catch(tx, r.logs, r.dirs, ofs) /\ Fault(tx, "map")
                          [] end = "map" ->
                               /\ Return(tx, <<[path |-> path, size |-> size]>>,
                                         LoggerInfo(r.logs, "Optimized JavaScript", tx.file, size),
                                         r.dirs, WriteFile(ofs, mapPath, tx.file, 0))
                               /\ UNCHANGED faults
    /\ unchangedByTransform

(***************************************************************************)
(* copyFile                                                                *)
(***************************************************************************)
\* a copy that leaves an empty destination
TruncatedCopy(f) == 0

\* fs.copyFile(source, destination): the destination gets the bytes of the source
CopiedBytes(f) == f.bytes

\* fs.stat(destination).size: the size of the file that is at path
StatSize(ofs, path) == (CHOOSE o \in ofs : o.path = path).size

\* lines 365-384: ensureDirectory, fs.copyFile, fs.stat
CopyFile ==
    /\ \E tx \in inflight :
         /\ tx.kind = "html" /\ tx.step = "copy"
         /\ \E r \in ensureDirectory(tx.file.dir, dirs, logs) :
              IF r.threw
              THEN Catch(tx, r.logs, r.dirs, outFiles) /\ Fault(tx, "mkdir")
              ELSE LET path == OutPath(tx.file.dir, tx.file.base, tx.file.ext, FALSE)
                       ofs == WriteFile(outFiles, path, tx.file, CopiedBytes(tx.file))
                       size == StatSize(ofs, path)
                   IN \E end \in {"copyThrows", "statThrows", "copied"} :
                        CASE end = "copyThrows" ->
                               Catch(tx, r.logs, r.dirs, outFiles) /\ Fault(tx, "copy")
                          [] end = "statThrows" ->
                               Catch(tx, r.logs, r.dirs, ofs) /\ Fault(tx, "stat")
                          [] end = "copied" ->
                               /\ Return(tx, <<[path |-> path, size |-> size]>>,
                                         LoggerInfo(r.logs, "Copied file", tx.file, size),
                                         r.dirs, ofs)
                               /\ UNCHANGED faults
    /\ unchangedByTransform

(***************************************************************************)
(* The summary and the exit                                                *)
(***************************************************************************)
\* a summary that counts the files attempted instead of the records collected
SummaryOfAttempts(res) ==
    [images |-> [count |-> Len(res.images) + Len(res.errors), totalSize |-> SumSize(res.images)],
     css |-> [count |-> Len(res.css) + Len(res.errors), totalSize |-> SumSize(res.css)],
     js |-> [count |-> Len(res.js) + Len(res.errors), totalSize |-> SumSize(res.js)],
     html |-> [count |-> Len(res.html) + Len(res.errors), totalSize |-> SumSize(res.html)],
     errors |-> Len(res.errors)]

\* a summary whose reduce adds nothing up
SummaryWithoutSizes(res) ==
    [images |-> [count |-> Len(res.images), totalSize |-> 0],
     css |-> [count |-> Len(res.css), totalSize |-> 0],
     js |-> [count |-> Len(res.js), totalSize |-> 0],
     html |-> [count |-> Len(res.html), totalSize |-> 0],
     errors |-> Len(res.errors)]

\* lines 521-540
Summary(res) ==
    [images |-> [count |-> Len(res.images), totalSize |-> SumSize(res.images)],
     css |-> [count |-> Len(res.css), totalSize |-> SumSize(res.css)],
     js |-> [count |-> Len(res.js), totalSize |-> SumSize(res.js)],
     html |-> [count |-> Len(res.html), totalSize |-> SumSize(res.html)],
     errors |-> Len(res.errors)]

\* lines 519-551: the summary line, the warning when something failed, return
Report ==
    /\ pc = "report"
    /\ summary' = <<Summary(results)>>
    /\ LET lg == LoggerInfo(logs, "Asset optimization completed", NoFile, Len(results.errors))
       IN logs' = IF Len(results.errors) > 0
                  THEN LoggerWarn(lg, "Some assets failed to optimize", NoFile,
                                  Len(results.errors))
                  ELSE lg
    /\ pc' = "finish"
    /\ UNCHANGED <<tree, srcReadable, globStrict, dirs, outFiles, cur, found, idx,
                   inflight, results, exitCode, called, faults, resizes, formVars, lazyVars, schemaVars, cardVars>>

\* lines 564-565
AlwaysZero(res) == 0
ExitCodeOf(res) == IF Len(res.errors) > 0 THEN 1 ELSE 0

\* lines 564-572: main after processAssets returned
Finish ==
    /\ pc = "finish"
    /\ exitCode' = ExitCodeOf(results)
    /\ logs' = LoggerInfo(logs, "Build optimization finished", NoFile, ExitCodeOf(results))
    /\ pc' = "exited"
    /\ UNCHANGED <<tree, srcReadable, globStrict, dirs, outFiles, cur, found, idx,
                   inflight, results, summary, called, faults, resizes, formVars, lazyVars, schemaVars, cardVars>>

NextBuild ==
    \/ Start
    \/ Glob
    \/ LoopNext
    \/ LoopExit
    \/ ImageEnter
    \/ ImageSvg
    \/ ImageWebp
    \/ ImageSecond
    \/ CssProcess
    \/ CssWrite
    \/ JsMinify
    \/ JsWrite
    \/ CopyFile
    \/ Report
    \/ Finish

(***************************************************************************)
(* What a run shows of each file                                           *)
(***************************************************************************)
Discovered == UNION {Range(found[k]) : k \in Range(Kinds)}

SuccessMessages ==
    {"Optimized SVG", "Optimized image", "Optimized CSS", "Optimized JavaScript",
     "Copied file"}

\* per-file success lines, warning lines, error records, transformer calls
Successes(f) ==
    Cardinality({i \in DOMAIN logs : logs[i].message \in SuccessMessages /\ logs[i].path = f})
Warnings(f) ==
    Cardinality({i \in DOMAIN logs :
                    logs[i].message = "Unsupported image format" /\ logs[i].path = f})
ErrorRecords(f) ==
    Cardinality({i \in DOMAIN results.errors : results.errors[i].path = f})
Calls(f) == Cardinality({i \in DOMAIN called : called[i].file = f})

\* a step of f's transform failed
Failed(f) == \E x \in faults : x.file = f

\* the process-level handler of main ran
FatalLogged ==
    \E i \in DOMAIN logs : logs[i].message = "Build optimization failed with fatal error"

\* processAssets got to its summary: the run is not a fatal one
CompletedRun == summary # <<>>

\* the setup the run depends on failed: BUILD_DIR could not be created, or the
\* directory walk raised an error on an unreadable SOURCE_DIR
SetupFailed == (pc # "start" /\ <<>> \notin dirs) \/ (~srcReadable /\ globStrict)

(***************************************************************************)
(* Claims about the build pipeline                                         *)
(***************************************************************************)

\* C1: the process exits once, with status 0 or 1; the status is non-zero exactly
\* when an error record was produced or the run ended in the fatal handler, and a
\* run without any failing step and without a fatal failure exits with 0.
C1_ExitStatus ==
    /\ pc # "exited" => exitCode = NoExit
    /\ pc = "exited" =>
         /\ exitCode \in {0, 1}
         /\ exitCode # 0 <=> (Len(results.errors) > 0 \/ FatalLogged)
         /\ (faults = {} /\ ~FatalLogged) => exitCode = 0

C1_Witness ==
    /\ pc = "exited" /\ exitCode = 1
    /\ ~FatalLogged
    /\ Len(results.errors) > 0
    /\ \E f \in Discovered : Successes(f) = 1

\* C2: when processAssets reaches its end, the error list holds exactly one record
\* for each file one of whose steps failed and none for any other file, every
\* discovered file was handed to its transformer, and the process-level handler
\* runs only when the setup failed, never because a file failed.
C2_FailureIsolation ==
    /\ CompletedRun =>
         /\ \A f \in Discovered :
              /\ Calls(f) >= 1
              /\ ErrorRecords(f) = IF Failed(f) THEN 1 ELSE 0
         /\ Len(results.errors) = Cardinality({f \in Discovered : Failed(f)})
    /\ FatalLogged => SetupFailed

C2_Witness ==
    /\ pc = "exited" /\ CompletedRun
    /\ \E i, j \in DOMAIN called :
         /\ i < j
         /\ Failed(called[i].file)
         /\ called[i].kind # called[j].kind
         /\ Successes(called[j].file) = 1

\* C3: in a completed run every discovered file was handed to its transformer
\* exactly once and has exactly one outcome: a success line (with an asset record
\* at its place in the output tree), a warning line, or an error record.
C3_ExactlyOnce ==
    CompletedRun =>
      \A k \in Range(Kinds) : \A f \in Range(found[k]) :
        /\ Calls(f) = 1
        /\ Successes(f) + Warnings(f) + ErrorRecords(f) = 1
        /\ Successes(f) = 1 =>
             \E i \in DOMAIN results[k] :
                /\ results[k][i].path.dir = f.dir
                /\ results[k][i].path.base = f.base

C3_Witness ==
    /\ pc = "exited" /\ CompletedRun
    /\ \E f, g \in Discovered : Successes(f) = 1 /\ ErrorRecords(g) = 1

\* the files of kind k that succeeded, and those that failed
Succeeded(k) == {f \in Range(found[k]) : Successes(f) = 1}
FailedOf(k) == {f \in Range(found[k]) : Failed(f)}

\* exactly one of the N files of kind k failed and the other N-1 succeeded
OneFailedOf(k) ==
    /\ Cardinality(FailedOf(k)) = 1
    /\ Cardinality(Succeeded(k)) = Len(found[k]) - 1

\* C4 as stated: with one failure among the N files of a kind, the exit code is
\* non-zero and the summary's count of the kind is N-1.
C4_CountIsNMinusOne ==
    (pc = "exited" /\ CompletedRun) =>
      \A k \in Range(Kinds) :
        OneFailedOf(k) =>
          /\ exitCode # 0
          /\ summary[1][k].count = Len(found[k]) - 1

\* sources that yield two renditions (webp and a re-encoded .jpg or .png)
TwoRenditions(k) == {f \in Succeeded(k) : k = "images" /\ f.ext \in {".jpg", ".jpeg", ".png"}}

\* C4 amended: with one failure among the N files of a kind, the exit code is
\* non-zero and the summary's count of the kind is the number of asset records of
\* the N-1 successful files: N-1 for css, js and html, and for images one per
\* .svg or .webp source and two per .jpg, .jpeg or .png source.
C4_CountIsRecordsOfSuccesses ==
    (pc = "exited" /\ CompletedRun) =>
      \A k \in Range(Kinds) :
        OneFailedOf(k) =>
          /\ exitCode # 0
          /\ summary[1][k].count = Cardinality(Succeeded(k)) + Cardinality(TwoRenditions(k))
          /\ k # "images" => summary[1][k].count = Len(found[k]) - 1

C4_Witness ==
    /\ pc = "exited" /\ CompletedRun
    /\ OneFailedOf("images")
    /\ Len(found["images"]) = 2
    /\ summary[1]["images"].count = 2

\* C5 as stated: a file with an unsupported image extension in the source tree
\* gets one warning line, no asset record and no error record, and does not make
\* the exit code non-zero.
C5_UnsupportedIsWarned ==
    (pc = "exited" /\ CompletedRun /\ srcReadable) =>
      \A f \in tree :
        f.ext = ".bmp" =>
          /\ Warnings(f) = 1
          /\ Successes(f) = 0
          /\ ErrorRecords(f) = 0
          /\ faults = {} => exitCode = 0

\* C6 as stated: when the source root is inaccessible or the output root cannot
\* be created, no transformer is called, no summary is emitted, and the process
\* exits with status 1.
C6_SetupFailureIsFatal ==
    (~srcReadable \/ (pc # "start" /\ <<>> \notin dirs)) =>
      /\ called = <<>>
      /\ summary = <<>>
      /\ pc = "exited" => exitCode = 1

\* C9: a script for which the minifier yields no code has exactly one error record,
\* of type js; nothing is written for it (neither script nor source map) and no js
\* asset record is added for it; the run is not aborted by it, and a completed run
\* has handed every discovered script and html file to its transformer.
C9_NoOutputIsError ==
    \A x \in faults :
      x.what = "noCode" =>
        /\ x.kind = "js"
        /\ ErrorRecords(x.file) = 1
        /\ \A i \in DOMAIN results.errors :
             results.errors[i].path = x.file => results.errors[i].type = "js"
        /\ \A o \in outFiles : o.from # x.file
        /\ \A i \in DOMAIN results.js :
             results.js[i].path # OutPath(x.file.dir, x.file.base, ".js", FALSE)
        /\ FatalLogged => SetupFailed
        /\ CompletedRun =>
             \A f \in Range(found["js"]) \cup Range(found["html"]) : Calls(f) = 1

C9_Witness ==
    /\ pc = "exited" /\ CompletedRun
    /\ \E i, j \in DOMAIN called :
         /\ i < j
         /\ [kind |-> "js", file |-> called[i].file, what |-> "noCode"] \in faults
         /\ Successes(called[j].file) = 1

Rank(kind) == CHOOSE k \in DOMAIN Kinds : Kinds[k] = kind

\* C10: at most one transform is in flight, and it is the one called last, by the
\* loop of the current kind; transformers are called in the order images, css, js,
\* html; a kind is discovered only after every file of the kinds before it has
\* settled; the summary and the exit come after all four loops, with nothing in
\* flight.
C10_OneAtATime ==
    /\ Cardinality(inflight) <= 1
    /\ \A tx \in inflight :
         /\ pc = "loop" /\ KindOf(cur) = tx.kind
         /\ called # <<>> /\ called[Len(called)].file = tx.file
    /\ \A i, j \in DOMAIN called : i < j => Rank(called[i].kind) <= Rank(called[j].kind)
    /\ \A k \in DOMAIN Kinds :
         /\ k > cur => found[Kinds[k]] = <<>>
         /\ k < cur => \A f \in Range(found[Kinds[k]]) :
                          Calls(f) = 1 /\ \A tx \in inflight : tx.file # f
    /\ (CompletedRun \/ pc \in {"report", "finish", "exited"}) => inflight = {}
    /\ CompletedRun =>
         /\ cur = Len(Kinds)
         /\ \A f \in Discovered : Calls(f) = 1
    /\ (exitCode # NoExit /\ ~FatalLogged) => CompletedRun

C10_Witness ==
    \E tx \in inflight :
      /\ tx.step = "second"
      /\ idx <= Len(found["images"])
      /\ \E o \in outFiles : o.from = tx.file

\* the sizes of the first n records of recs, added up record by record
RECURSIVE SizeUpTo(_, _)
SizeUpTo(recs, n) == IF n = 0 THEN 0 ELSE SizeUpTo(recs, n - 1) + recs[n].size

\* C11: the summary that was logged agrees with the results collected: for each
\* kind its count is the number of asset records of the kind and its totalSize
\* the sum of their sizes, and its errors is the number of error records.
C11_SummaryMatchesResults ==
    CompletedRun =>
      /\ \A k \in Range(Kinds) :
           /\ summary[1][k].count = Cardinality(DOMAIN results[k])
           /\ summary[1][k].totalSize = SizeUpTo(results[k], Len(results[k]))
      /\ summary[1].errors = Cardinality(DOMAIN results.errors)

C11_Witness ==
    /\ pc = "exited" /\ CompletedRun
    /\ summary[1].images.count = 2
    /\ summary[1].images.totalSize > 0
    /\ summary[1].errors = 1

\* the sizes of the asset records a successful transform of f returns
SizesOf(kind, f) ==
    CASE kind = "images" /\ f.ext = ".svg" -> <<SvgoSize(f)>>
      [] kind = "images" /\ f.ext \in {".jpg", ".jpeg"} -> <<WebpSize(f), JpegSize(f)>>
      [] kind = "images" /\ f.ext = ".png" -> <<WebpSize(f), PngSize(f)>>
      [] kind = "images" /\ f.ext = ".webp" -> <<WebpSize(f)>>
      [] kind = "css" -> <<CssSize(f)>>
      [] kind = "js" -> <<JsSize(f)>>
      [] kind = "html" -> <<f.bytes>>
      [] OTHER -> <<>>

RECURSIVE SumSeq(_)
SumSeq(s) == IF s = <<>> THEN 0 ELSE Head(s) + SumSeq(Tail(s))

\* over the set S of files of a kind, whatever the order: how many records their
\* successful transforms return, and the bytes of these records
RECURSIVE RecordsOfSet(_, _)
RecordsOfSet(kind, S) ==
    IF S = {} THEN 0
    ELSE LET f == CHOOSE x \in S : TRUE
         IN Len(SizesOf(kind, f)) + RecordsOfSet(kind, S \ {f})

RECURSIVE BytesOfSet(_, _)
BytesOfSet(kind, S) ==
    IF S = {} THEN 0
    ELSE LET f == CHOOSE x \in S : TRUE
         IN SumSeq(SizesOf(kind, f)) + BytesOfSet(kind, S \ {f})

\* C12: the summary depends on the set of discovered files and on which of them
\* failed, not on the order the files of a kind were processed in: whatever list
\* discovery returned, the count and totalSize of each kind are those of the set
\* of its files that did not fail, and errors is the number of files that failed.
C12_OrderIndependent ==
    CompletedRun =>
      /\ \A k \in Range(Kinds) :
           LET good == Range(found[k]) \ FailedOf(k) IN
           /\ summary[1][k].count = RecordsOfSet(k, good)
           /\ summary[1][k].totalSize = BytesOfSet(k, good)
      /\ summary[1].errors = Cardinality({f \in Discovered : Failed(f)})

\* two files of a kind, the larger one processed first and failing
C12_Witness ==
    /\ pc = "exited" /\ CompletedRun
    /\ \E k \in Range(Kinds) :
         /\ Len(found[k]) = 2
         /\ found[k][1].bytes > found[k][2].bytes
         /\ Failed(found[k][1])
         /\ Successes(found[k][2]) = 1

\* the formats of the asset records the claim gives a source extension
FormatsOf(ext) ==
    CASE ext = ".svg" -> <<"svg">>
      [] ext \in {".jpg", ".jpeg"} -> <<"webp", "jpeg">>
      [] ext = ".png" -> <<"webp", "png">>
      [] ext = ".webp" -> <<"webp">>
      [] OTHER -> <<>>

\* what the first n transformer calls should have left in results.images: for each
\* image whose transform succeeded, one record per format, beside the source
RECURSIVE ImageRecordsOfCalls(_)
ImageRecordsOfCalls(n) ==
    IF n = 0 THEN <<>>
    ELSE LET c == called[n]
             fmts == FormatsOf(c.file.ext)
         IN ImageRecordsOfCalls(n - 1) \o
            (IF c.kind = "images" /\ Successes(c.file) = 1
             THEN [i \in 1..Len(fmts) |->
                     [dir |-> c.file.dir, base |-> c.file.base, format |-> fmts[i]]]
             ELSE <<>>)

\* C13: the asset records of a successful image transform are determined by the
\* source extension: one svg record for .svg; for a raster one webp record, then
\* one jpeg record for .jpg/.jpeg or one png record for .png; none only for an
\* unsupported extension. results.images holds exactly these, call after call.
C13_RecordsByExtension ==
    [i \in 1..Len(results.images) |->
        [dir |-> results.images[i].path.dir, base |-> results.images[i].path.base,
         format |-> results.images[i].format]]
      = ImageRecordsOfCalls(Len(called))

\* a .png and a .webp source both transformed: three records
C13_Witness ==
    /\ \E f, g \in Range(found["images"]) :
         /\ f.ext = ".png" /\ g.ext = ".webp"
         /\ Successes(f) = 1 /\ Successes(g) = 1
    /\ Len(results.images) = 3

\* C14: every rendition of a raster of natural width w was resized to the target
\* width min(w, MAX_IMAGE_WIDTH): never above w, never above 1920, and one of the
\* two; and every raster record in results.images comes from such a resize.
C14_ClampedTargetWidth ==
    /\ \A r \in resizes :
         /\ r.width <= r.file.width
         /\ r.width <= 1920
         /\ r.width = r.file.width \/ r.width = 1920
    /\ \A i \in DOMAIN results.images :
         results.images[i].format # "svg" =>
           \E r \in resizes :
             /\ r.format = results.images[i].format
             /\ r.file.dir = results.images[i].path.dir
             /\ r.file.base = results.images[i].path.base

\* one raster wider than the maximum and one narrower, both resized
C14_Witness ==
    \E r, q \in resizes :
      /\ r.file.width > 1920 /\ r.width = 1920
      /\ q.file.width < 1920 /\ q.width = q.file.width

\* C15 as stated: no transformer is handed a file that lies, at any depth of the
\* source tree, inside a node_modules, dist, build or .git directory (for scripts
\* also scripts), and no list of discovered files holds the same file twice.
C15_ExcludedAtAnyDepth ==
    /\ \A i \in DOMAIN called :
         \A d \in DOMAIN called[i].file.dir :
           called[i].file.dir[d] \notin
             (IF called[i].kind = "js"
              THEN {"node_modules", "dist", "build", ".git", "scripts"}
              ELSE {"node_modules", "dist", "build", ".git"})
    /\ \A k \in Range(Kinds) :
         \A i, j \in DOMAIN found[k] : found[k][i] = found[k][j] => i = j

\* every line is a JSON object with the fields timestamp, level and message
LinesCarryFields ==
    \A i \in DOMAIN logs :
      /\ {"timestamp", "level", "message"} \subseteq DOMAIN logs[i]
      /\ logs[i].level \in {"INFO", "WARN", "ERROR"}

\* C17 as stated: info and warn lines go to standard out, error lines to standard
\* error, and every line carries timestamp, level and message.
C17_StreamsAsStated ==
    /\ \A i \in DOMAIN logs :
         /\ logs[i].level \in {"INFO", "WARN"} => logs[i].stream = "stdout"
         /\ logs[i].level = "ERROR" => logs[i].stream = "stderr"
    /\ LinesCarryFields

\* C17 amended: info lines go to standard out, warn and error lines to standard
\* error, and every line carries timestamp, level and message.
C17_Streams ==
    /\ \A i \in DOMAIN logs :
         /\ logs[i].level = "INFO" => logs[i].stream = "stdout"
         /\ logs[i].level \in {"WARN", "ERROR"} => logs[i].stream = "stderr"
    /\ LinesCarryFields

\* a run that logged at all three levels
C17_Witness ==
    \E i, j, k \in DOMAIN logs :
      logs[i].level = "INFO" /\ logs[j].level = "WARN" /\ logs[k].level = "ERROR"

\* the files a successful transform of the image f writes, in the order it writes
Renditions(f) ==
    LET webp == [path |-> OutPath(f.dir, f.base, ".webp", FALSE), from |-> f,
                 size |-> WebpSize(f)]
    IN CASE f.ext = ".svg" ->
              <<[path |-> OutPath(f.dir, f.base, ".svg", FALSE), from |-> f,
                 size |-> SvgoSize(f)]>>
         [] f.ext \in {".jpg", ".jpeg"} ->
              <<webp, [path |-> OutPath(f.dir, f.base, ".jpg", FALSE), from |-> f,
                       size |-> JpegSize(f)]>>
         [] f.ext = ".png" ->
              <<webp, [path |-> OutPath(f.dir, f.base, ".png", FALSE), from |-> f,
                       size |-> PngSize(f)]>>
         [] OTHER -> <<webp>>

RECURSIVE WriteAll(_, _)
WriteAll(ofs, ws) ==
    IF ws = <<>> THEN ofs
    ELSE WriteAll(WriteFile(ofs, Head(ws).path, Head(ws).from, Head(ws).size), Tail(ws))

\* the image files a run without failures leaves in a fresh output directory when
\* discovery returns the images in this order
RECURSIVE ImagesOfRun(_, _)
ImagesOfRun(ofs, order) ==
    IF order = <<>> THEN ofs
    ELSE ImagesOfRun(WriteAll(ofs, Renditions(Head(order))), Tail(order))

\* C18 as stated: a run in which no step fails leaves the same output paths with
\* the same contents, and the same summary counts, as a run over the same tree
\* in which discovery returns the files in any other order.
C18_SameOutputsInAnyOrder ==
    (CompletedRun /\ faults = {}) =>
      /\ \A order \in Orderings(Range(found["images"])) :
           ImagesOfRun({}, order) = {o \in outFiles : o.from.ext \in SUPPORTED_IMAGE_FORMATS}
      /\ \A o \in outFiles :
           o.from.ext \notin SUPPORTED_IMAGE_FORMATS =>
             /\ o.path.dir = o.from.dir /\ o.path.base = o.from.base
             /\ o.path.ext = o.from.ext
      /\ \A k \in Range(Kinds) : summary[1][k].count = RecordsOfSet(k, Range(found[k]))

\* the 'Created directory' lines logged for directory d
CreatedLines(d) ==
    {i \in DOMAIN logs : logs[i].message = "Created directory" /\ logs[i].path.dir = d}

\* C19: ensureDirectory, called in any state of a run for the output root or the
\* directory of any source file: when the directory exists it creates nothing,
\* logs nothing and raises nothing; when it is missing and mkdir succeeds, the
\* directory and those above it exist afterwards, nothing else was created, and
\* 'Created directory' was logged once; a second call right after changes
\* nothing. Within a run no directory is logged as created twice.
C19_EnsureDirectoryIdempotent ==
    /\ \A d \in {<<>>} \cup {f.dir : f \in tree} :
         \A r \in ensureDirectory(d, dirs, logs) :
           /\ d \in dirs => (~r.threw /\ r.dirs = dirs /\ r.logs = logs)
           /\ (d \notin dirs /\ ~r.threw) =>
                /\ \A k \in 0..Len(d) : SubSeq(d, 1, k) \in r.dirs
                /\ \A e \in r.dirs \ dirs : \E k \in 0..Len(d) : e = SubSeq(d, 1, k)
                /\ dirs \subseteq r.dirs
                /\ Len(r.logs) = Len(logs) + 1
                /\ SubSeq(r.logs, 1, Len(logs)) = logs
                /\ r.logs[Len(r.logs)].message = "Created directory"
                /\ r.logs[Len(r.logs)].path.dir = d
           /\ ~r.threw =>
                \A q \in ensureDirectory(d, r.dirs, r.logs) :
                  ~q.threw /\ q.dirs = r.dirs /\ q.logs = r.logs
    /\ \A d \in dirs : Cardinality(CreatedLines(d)) <= 1

\* two files of one directory were both written; the directory was created once
C19_Witness ==
    \E f, g \in Discovered :
      /\ f # g /\ f.dir = g.dir /\ f.dir # <<>>
      /\ Successes(f) = 1 /\ Successes(g) = 1
      /\ Cardinality(CreatedLines(f.dir)) = 1

\* the final summary lines in the log
SummaryLines == {i \in DOMAIN logs : logs[i].message = "Asset optimization completed"}

\* the list of kind k was discovered and every file of it has settled
KindProcessed(k) ==
    /\ \E i \in DOMAIN logs : logs[i].message = FoundMessage(k)
    /\ \A f \in Range(found[k]) : Calls(f) = 1 /\ \A tx \in inflight : tx.file # f

\* each list of the results only grows at its end
ResultsGrow ==
    \A a \in DOMAIN results :
      /\ Len(results'[a]) >= Len(results[a])
      /\ SubSeq(results'[a], 1, Len(results[a])) = results[a]

\* once the summary is out, results and summary stay as they are
FinalOnceReported == summary # <<>> => (results' = results /\ summary' = summary)

\* one summary line, after all four kinds
OneSummaryAtTheEnd ==
    /\ Cardinality(SummaryLines) = Len(summary)
    /\ Len(summary) <= 1
    /\ (pc = "exited" /\ ~FatalLogged) => Cardinality(SummaryLines) = 1
    /\ SummaryLines # {} => \A k \in Range(Kinds) : KindProcessed(k)

\* C20: during a run no asset or error record is removed or altered once added;
\* a run that does not end in the fatal handler emits exactly one final summary
\* line, only after all four kinds have been processed; and no record is added
\* to the results after it.
C20_AppendOnlyAndFinal ==
    /\ [][ResultsGrow]_vars
    /\ [][FinalOnceReported]_vars
    /\ []OneSummaryAtTheEnd

\* a finished run that collected several asset records and an error record
C20_Witness ==
    /\ pc = "exited" /\ Cardinality(SummaryLines) = 1
    /\ Len(results.images) + Len(results.css) + Len(results.js) + Len(results.html) >= 2
    /\ Len(results.errors) = 1

\* C21: an HTML file that was copied has, at the output path mirroring its path
\* below the source root, a file with the bytes of the source, and one html record
\* with that path and the size of that file; an HTML file whose copy failed has
\* one error record, of type html, and no asset record; and a completed run has
\* called copyFile for every discovered HTML file.
C21_CopyIsVerbatim ==
    /\ \A f \in Range(found["html"]) :
         LET dest == OutPath(f.dir, f.base, f.ext, FALSE)
             recs == {i \in DOMAIN results.html : results.html[i].path = dest}
         IN /\ Successes(f) = 1 =>
                 /\ \E o \in outFiles : o.path = dest /\ o.from = f /\ o.size = f.bytes
                 /\ Cardinality(recs) = 1
                 /\ \A i \in recs : \A o \in outFiles :
                      o.path = dest => results.html[i].size = o.size
            /\ Failed(f) =>
                 /\ ErrorRecords(f) = 1
                 /\ \A i \in DOMAIN results.errors :
                      results.errors[i].path = f => results.errors[i].type = "html"
                 /\ recs = {}
    /\ CompletedRun => \A f \in Range(found["html"]) : Calls(f) = 1

\* the first of two copies failed, the second was made
C21_Witness ==
    /\ pc = "exited" /\ CompletedRun
    /\ Len(found["html"]) = 2
    /\ Failed(found["html"][1])
    /\ Successes(found["html"][2]) = 1

\* the asset records of a run, each with its kind and its place in the kind's list
AssetRecords ==
    UNION {{<<k, i>> : i \in DOMAIN results[k]} : k \in Range(Kinds)}

\* the extension of the file a rendition of this format is written to
ExtOfFormat(format) ==
    CASE format = "webp" -> ".webp"
      [] format = "jpeg" -> ".jpg"
      [] format = "png" -> ".png"

\* C27 as stated: two distinct source files never write to the same output path:
\* no two asset records carry the same path, and every rendition a transform
\* wrote is still the file at its path, not overwritten by another source's.
C27_NoSharedOutputPath ==
    /\ \A a, b \in AssetRecords :
         a # b => results[a[1]][a[2]].path # results[b[1]][b[2]].path
    /\ \A r \in resizes :
         \E o \in outFiles :
           /\ o.path = OutPath(r.file.dir, r.file.base, ExtOfFormat(r.format), FALSE)
           /\ o.from = r.file

\* C28 as stated: at the end of a run every file a transform wrote into the
\* output directory, source maps excepted, has an asset record with its path, and
\* a file whose transform ended in an error record has left no output file.
C28_FailedLeavesNothing ==
    CompletedRun =>
      /\ \A o \in outFiles :
           ~o.path.map =>
             \E a \in AssetRecords : results[a[1]][a[2]].path = o.path
      /\ \A i \in DOMAIN results.errors :
           \A o \in outFiles : o.from = results.errors[i].path => o.path.map

(***************************************************************************)
(* Contact form handler (js/lazy-loading.js, second IIFE)                  *)
(***************************************************************************)
RATE_LIMIT_WINDOW == 60000
MAX_SUBMISSIONS_PER_WINDOW == 3
SUBMISSION_TIMEOUT == 30000

SuccessText == "Thank you for your message!"
RateLimitText == "Too many submissions"
TimeoutText == "Request timed out"
ProblemText == "Oops! There was a problem submitting your form"
UnexpectedText == "An unexpected error occurred"

\* the controls of the form, by name; setupHoneypot (625-640) appends 'website'
FormFields == {"name", "email", "phone", "service", "message", "website"}

\* values the hidden 'website' field is given: empty, blank, text, padded text
WebsiteValues == {<<>>, <<" ">>, <<"x">>, <<" ", "x", " ">>}

\* String.prototype.trim: white space is removed from both ends
RECURSIVE TrimStart(_)
TrimStart(v) == IF v # <<>> /\ Head(v) = " " THEN TrimStart(Tail(v)) ELSE v

RECURSIVE TrimEnd(_)
TrimEnd(v) ==
    IF v # <<>> /\ v[Len(v)] = " " THEN TrimEnd(SubSeq(v, 1, Len(v) - 1)) ELSE v

Trim(v) == TrimEnd(TrimStart(v))

\* isSpam() without its test of the field's value
NeverSpam(v) == FALSE

\* isSpam(): the honeypot field holds more than white space
isSpam(v) == Trim(v) # <<>>

\* collectFormData(): the names in the FormData that is sent
collectFormData ==
    (FormFields \ {"website"}) \cup {"_subject", "_replyto", "_timestamp", "_source"}

InitForm ==
    /\ isSubmitting = FALSE
    /\ submissionCount = 0
    /\ lastSubmissionTime = 0
    /\ buttonDisabled = FALSE
    /\ formMessage = ""
    /\ formValid = FALSE
    /\ honeypot = <<>>
    /\ now = StartTime
    /\ requests = {}
    /\ posts = <<>>

\* the user edits the fields (and a bot may fill the hidden 'website' field)
EditFields ==
    /\ \E v \in BOOLEAN, h \in WebsiteValues :
         /\ <<v, h>> # <<formValid, honeypot>>
         /\ formValid' = v
         /\ honeypot' = h
    /\ UNCHANGED <<isSubmitting, submissionCount, lastSubmissionTime, buttonDisabled,
                   formMessage, now, requests, posts, buildVars, lazyVars, schemaVars, cardVars>>

\* time passes
ClockTick ==
    /\ now + Tick <= MaxNow
    /\ now' = now + Tick
    /\ UNCHANGED <<isSubmitting, submissionCount, lastSubmissionTime, buttonDisabled,
                   formMessage, formValid, honeypot, requests, posts, buildVars, lazyVars, schemaVars, cardVars>>

\* a limiter that lets every submit through
NeverLimited(t, count, last) ==
    [limited |-> FALSE, submissionCount |-> count, lastSubmissionTime |-> last]

\* isRateLimited() at time t: its result and what it leaves in state
isRateLimited(t, count, last) ==
    IF t - last > RATE_LIMIT_WINDOW
    THEN [limited |-> FALSE, submissionCount |-> 0, lastSubmissionTime |-> t]
    ELSE [limited |-> count >= MAX_SUBMISSIONS_PER_WINDOW,
          submissionCount |-> count, lastSubmissionTime |-> last]

\* setSubmittingState(b): state.isSubmitting and the button's disabled flag
setSubmittingState(b) ==
    /\ isSubmitting' = b
    /\ buttonDisabled' = b

\* a handleSubmit that does not look at what validateForm returns
ValidationSkipped == TRUE

\* validateForm(): every input passes validateField for its current value
validateForm == formValid

\* handleSubmit from the submit event to its first await (or to its return); every
\* return inside the try block runs the finally block, setSubmittingState(false)
HandleSubmit ==
    /\ Len(posts) < MaxPosts
    /\ IF isSubmitting
       THEN /\ setSubmittingState(FALSE)
            /\ UNCHANGED <<formMessage, submissionCount, lastSubmissionTime, requests, posts>>
       ELSE IF ~validateForm
       THEN /\ formMessage' = ""
            /\ setSubmittingState(FALSE)
            /\ UNCHANGED <<submissionCount, lastSubmissionTime, requests, posts>>
       ELSE IF isSpam(honeypot)
       THEN /\ formMessage' = SuccessText
            /\ setSubmittingState(FALSE)
            /\ UNCHANGED <<submissionCount, lastSubmissionTime, requests, posts>>
       ELSE LET r == isRateLimited(now, submissionCount, lastSubmissionTime) IN
            /\ lastSubmissionTime' = r.lastSubmissionTime
            /\ IF r.limited
               THEN /\ formMessage' = RateLimitText
                    /\ submissionCount' = r.submissionCount
                    /\ setSubmittingState(FALSE)
                    /\ UNCHANGED <<requests, posts>>
               ELSE /\ formMessage' = ""
                    /\ setSubmittingState(TRUE)
                    /\ submissionCount' = r.submissionCount + 1
                    /\ requests' = requests \cup {[id |-> Len(posts) + 1, start |-> now,
                                                 body |-> collectFormData,
                                                 stage |-> "fetch"]}
                    /\ posts' = Append(posts, now)
    /\ UNCHANGED <<formValid, honeypot, now, buildVars, lazyVars, schemaVars, cardVars>>

\* handleSubmit after 'await submitWithTimeout(formData)': the fetch settled, or
\* the timeout aborted it; then the finally block. A response that is not ok is
\* first read with 'await response.json()': the timeout was cleared when the
\* fetch settled (980-982), and handleSubmit waits for the body
Settles(req, end) ==
    /\ req.stage = "fetch"
    /\ end = "aborted" => now - req.start >= SUBMISSION_TIMEOUT
    /\ CASE end = "ok" ->
              /\ requests' = requests \ {req}
              /\ formMessage' = SuccessText
              /\ formValid' = FALSE
              /\ honeypot' = <<>>
              /\ setSubmittingState(FALSE)
         [] end = "notOk" ->
              /\ requests' = (requests \ {req}) \cup {[req EXCEPT !.stage = "body"]}
              /\ UNCHANGED <<formMessage, formValid, honeypot, isSubmitting, buttonDisabled>>
         [] end = "rejected" ->
              /\ requests' = requests \ {req}
              /\ formMessage' = ProblemText
              /\ UNCHANGED <<formValid, honeypot>>
              /\ setSubmittingState(FALSE)
         [] end = "aborted" ->
              /\ requests' = requests \ {req}
              /\ formMessage' = TimeoutText
              /\ UNCHANGED <<formValid, honeypot>>
              /\ setSubmittingState(FALSE)
    /\ UNCHANGED <<submissionCount, lastSubmissionTime, now, posts, buildVars, lazyVars, schemaVars, cardVars>>

HandleResponse ==
    \E req \in requests : \E end \in {"ok", "notOk", "rejected", "aborted"} : Settles(req, end)

\* the timer of submitWithTimeout fires: controller.abort() rejects the fetch
TimeoutAborts == \E req \in requests : Settles(req, "aborted")

\* 'await response.json().catch(() => ({}))' settled: handleSubmissionError with
\* the error data, then the finally block
ReadErrorBody ==
    /\ \E req \in requests :
         /\ req.stage = "body"
         /\ requests' = requests \ {req}
         /\ formMessage' \in {ProblemText, UnexpectedText}
    /\ setSubmittingState(FALSE)
    /\ UNCHANGED <<submissionCount, lastSubmissionTime, formValid, honeypot, now, posts,
                   buildVars, lazyVars, schemaVars, cardVars>>

NextForm ==
    \/ EditFields
    \/ ClockTick
    \/ HandleSubmit
    \/ HandleResponse
    \/ ReadErrorBody

(***************************************************************************)
(* Claims about the contact form                                           *)
(***************************************************************************)

\* C7 as stated: at most one form POST is in flight, and while one is in flight
\* state.isSubmitting stays true and the submit button stays disabled.
C7_SinglePostInFlight ==
    /\ Cardinality(requests) <= 1
    /\ requests # {} => (isSubmitting /\ buttonDisabled)

\* C8 as stated: no interval of length RATE_LIMIT_WINDOW holds the start of more
\* than MAX_SUBMISSIONS_PER_WINDOW form POSTs.
C8_RateLimitedInEveryWindow ==
    \A i, j \in DOMAIN posts :
      j - i >= MAX_SUBMISSIONS_PER_WINDOW => posts[j] - posts[i] > RATE_LIMIT_WINDOW

\* the 'website' field holds a character that is not white space
HoneypotFilled == \E i \in DOMAIN honeypot : honeypot[i] # " "

\* the request that is being sent never carries the 'website' field
NoWebsiteInBody == \A req \in requests : "website" \notin req.body

\* C16 as stated: a submit with a non-empty 'website' field starts no request,
\* shows the success message and leaves submissionCount unchanged; and 'website'
\* is never part of the form data of a request.
C16_HoneypotAsStated ==
    /\ [][(HandleSubmit /\ honeypot # <<>>) =>
            /\ requests' = requests
            /\ posts' = posts
            /\ formMessage' = SuccessText
            /\ submissionCount' = submissionCount]_vars
    /\ []NoWebsiteInBody

\* C16 amended: a submit whose 'website' field holds more than white space starts
\* no request and leaves submissionCount and lastSubmissionTime unchanged; it
\* shows the success message when state.isSubmitting is false and the fields pass
\* validateForm; and 'website' is never part of the form data of a request.
C16_Honeypot ==
    /\ [][(HandleSubmit /\ HoneypotFilled) =>
            /\ requests' = requests
            /\ posts' = posts
            /\ submissionCount' = submissionCount
            /\ lastSubmissionTime' = lastSubmissionTime
            /\ (~isSubmitting /\ formValid) => formMessage' = SuccessText]_vars
    /\ []NoWebsiteInBody

\* the success message on a page that never sent a request: the honeypot branch
C16_Witness ==
    /\ formMessage = SuccessText
    /\ posts = <<>>
    /\ formValid /\ HoneypotFilled

\* request id is waiting, and was started early enough for its timeout to fall
\* within the time the model follows
Pending(id) ==
    \E req \in requests : req.id = id /\ req.start + SUBMISSION_TIMEOUT <= MaxNow

\* request id is over, the form is not submitting and shows an outcome
Ended(id) ==
    /\ \A req \in requests : req.id # id
    /\ ~isSubmitting
    /\ formMessage \in {SuccessText, ProblemText, UnexpectedText, TimeoutText}

\* C23 as stated: every submit that started a request eventually ends with
\* state.isSubmitting false and the success message or an error message shown,
\* whether or not the server answers.
C23_EverySubmitEnds == \A id \in 1..MaxPosts : Pending(id) ~> Ended(id)

\* C24: a POST is started only by a submit whose field values pass validation; a
\* submit whose values do not pass starts no request and leaves submissionCount
\* and lastSubmissionTime, and with them the rate-limit quota, as they were.
C24_ValidatedBeforePost ==
    /\ [][(HandleSubmit /\ posts' # posts) => formValid]_vars
    /\ [][(HandleSubmit /\ ~formValid) =>
            /\ requests' = requests
            /\ posts' = posts
            /\ submissionCount' = submissionCount
            /\ lastSubmissionTime' = lastSubmissionTime]_vars

\* after the one POST of the page was answered, a submit that validation rejected
\* has cleared the message; the count is still 1
C24_Witness ==
    /\ Len(posts) = 1 /\ requests = {}
    /\ ~formValid
    /\ formMessage = ""
    /\ submissionCount = 1

\* C30: state.submissionCount is never below 0 and never above
\* MAX_SUBMISSIONS_PER_WINDOW (3), whatever the order of submits, request
\* completions and clock advances.
C30_CountWithinLimit ==
    /\ submissionCount >= 0
    /\ submissionCount <= MAX_SUBMISSIONS_PER_WINDOW

\* three POSTs were counted in the window and a fourth submit was refused
C30_Witness ==
    /\ submissionCount = MAX_SUBMISSIONS_PER_WINDOW
    /\ formMessage = RateLimitText
    /\ Len(posts) >= 3

(***************************************************************************)
(* Lazy loader (js/lazy-loading.js, first IIFE): LazyLoadManager           *)
(***************************************************************************)
retryAttempts == 3

\* the lazy-loadable elements of the page
Elements == {"img"}

InitLazy ==
    /\ loadingQueue = {}
    /\ loadedElements = {}
    /\ retryMap = [e \in Elements |-> 0]
    /\ classList = [e \in Elements |-> {"lazy-placeholder"}]
    /\ observed = Elements
    /\ delayTimers = [e \in Elements |-> 0]
    /\ loads = [e \in Elements |-> 0]
    /\ retryTimers = [e \in Elements |-> 0]
    /\ triggers = 0
    /\ attempts = [e \in Elements |-> 0]
    /\ lazyloaded = [e \in Elements |-> 0]
    /\ lazyerror = [e \in Elements |-> 0]

\* loadElement(e) up to its await, from loading queue q: nothing when e is loaded
loadElement(e, q) ==
    IF e \in loadedElements
    THEN /\ loadingQueue' = q
         /\ UNCHANGED <<classList, loads, attempts>>
    ELSE /\ loadingQueue' = q \cup {e}
         /\ classList' = [classList EXCEPT ![e] = @ \cup {"lazy-loading"}]
         /\ loads' = [loads EXCEPT ![e] = @ + 1]
         /\ attempts' = [attempts EXCEPT ![e] = @ + 1]

\* the observer reports e as intersecting: handleIntersection sets its timer
HandleIntersection ==
    /\ triggers < MaxTriggers
    /\ \E e \in observed :
         /\ e \notin loadedElements /\ e \notin loadingQueue
         /\ delayTimers' = [delayTimers EXCEPT ![e] = @ + 1]
    /\ triggers' = triggers + 1
    /\ UNCHANGED <<loadingQueue, loadedElements, retryMap, classList, observed, loads,
                   retryTimers, attempts, lazyloaded, lazyerror, buildVars, formVars, schemaVars, cardVars>>

\* a loadDelay timer of handleIntersection fires
DelayFires ==
    /\ \E e \in Elements :
         /\ delayTimers[e] > 0
         /\ delayTimers' = [delayTimers EXCEPT ![e] = @ - 1]
         /\ loadElement(e, loadingQueue)
    /\ UNCHANGED <<loadedElements, retryMap, observed, retryTimers, triggers, lazyloaded,
                   lazyerror, buildVars, formVars, schemaVars, cardVars>>

\* loadNow(e), the manual trigger
LoadNow ==
    /\ triggers < MaxTriggers
    /\ \E e \in Elements :
         /\ e \notin loadedElements
         /\ loadElement(e, loadingQueue)
    /\ triggers' = triggers + 1
    /\ UNCHANGED <<loadedElements, retryMap, observed, delayTimers, retryTimers,
                   lazyloaded, lazyerror, buildVars, formVars, schemaVars, cardVars>>

\* the temporary image loaded: loadImage resolves, then onLoadSuccess
LoadSucceeds ==
    /\ \E e \in Elements :
         /\ loads[e] > 0
         /\ loads' = [loads EXCEPT ![e] = @ - 1]
         /\ loadingQueue' = loadingQueue \ {e}
         /\ loadedElements' = loadedElements \cup {e}
         /\ classList' = [classList EXCEPT ![e] =
                            (@ \ {"lazy-placeholder", "lazy-loading"}) \cup {"lazy-loaded"}]
         /\ observed' = observed \ {e}
         /\ lazyloaded' = [lazyloaded EXCEPT ![e] = @ + 1]
    /\ UNCHANGED <<retryMap, delayTimers, retryTimers, triggers, attempts, lazyerror,
                   buildVars, formVars, schemaVars, cardVars>>

\* the temporary image failed: loadImage rejects, then onLoadError up to its await
\* or, with the retries used up, to its end
LoadFails ==
    /\ \E e \in Elements :
         /\ loads[e] > 0
         /\ loads' = [loads EXCEPT ![e] = @ - 1]
         /\ IF retryMap[e] < retryAttempts
            THEN /\ retryMap' = [retryMap EXCEPT ![e] = @ + 1]
                 /\ retryTimers' = [retryTimers EXCEPT ![e] = @ + 1]
                 /\ UNCHANGED <<loadingQueue, classList, lazyerror>>
            ELSE /\ loadingQueue' = loadingQueue \ {e}
                 /\ classList' = [classList EXCEPT ![e] =
                                    (@ \ {"lazy-loading"}) \cup {"lazy-error"}]
                 /\ lazyerror' = [lazyerror EXCEPT ![e] = @ + 1]
                 /\ UNCHANGED <<retryMap, retryTimers>>
    /\ UNCHANGED <<loadedElements, observed, delayTimers, triggers, attempts, lazyloaded,
                   buildVars, formVars, schemaVars, cardVars>>

\* onLoadError after its await: loadingQueue.delete(e), then loadElement(e)
RetryFires ==
    /\ \E e \in Elements :
         /\ retryTimers[e] > 0
         /\ retryTimers' = [retryTimers EXCEPT ![e] = @ - 1]
         /\ loadElement(e, loadingQueue \ {e})
    /\ UNCHANGED <<loadedElements, retryMap, observed, delayTimers, triggers, lazyloaded,
                   lazyerror, buildVars, formVars, schemaVars, cardVars>>

NextLazy ==
    \/ HandleIntersection
    \/ DelayFires
    \/ LoadNow
    \/ LoadSucceeds
    \/ LoadFails
    \/ RetryFires

(***************************************************************************)
(* Claims about the lazy loader                                            *)
(***************************************************************************)

\* C22 as stated: an element is attempted at most 1 + retryAttempts = 4 times in
\* total, and once its retries are used up the error class is set and 'lazyerror'
\* is dispatched exactly once for it.
C22_RetryBound ==
    \A e \in Elements :
      /\ attempts[e] <= 4
      /\ lazyerror[e] <= 1
      /\ lazyerror[e] = 1 => "lazy-error" \in classList[e]
      /\ (retryMap[e] = 3 /\ attempts[e] >= 4 /\ loads[e] = 0 /\ retryTimers[e] = 0
            /\ e \notin loadedElements) => lazyerror[e] = 1

\* C25 as stated: whatever the order of intersection callbacks, delay timers, retry
\* timers and loadNow calls, an element has at most one load attempt in flight.
C25_OneLoadInFlight ==
    \A e \in Elements : loads[e] <= 1

\* C26 as stated: once an element is loaded no further load attempt is started for
\* it, and 'lazyloaded' is dispatched at most once for it.
C26_LoadedOnce ==
    /\ [](\A e \in Elements : lazyloaded[e] <= 1)
    /\ [][\A e \in Elements : e \in loadedElements => attempts'[e] = attempts[e]]_vars

\* an attempt for e is running: its image is loading or its retry is waiting
InFlight(e) == loads[e] > 0 \/ retryTimers[e] > 0

\* C29 as stated: an element never carries both the loaded class and the error
\* class, and one that carries either of them carries the loading class only
\* while a load attempt for it is in flight.
C29_ClassesExclusive ==
    \A e \in Elements :
      /\ ~({"lazy-loaded", "lazy-error"} \subseteq classList[e])
      /\ (classList[e] \cap {"lazy-loaded", "lazy-error"} # {}
            /\ "lazy-loading" \in classList[e]) => InFlight(e)

(***************************************************************************)
(* Structured data (js/schema.js): initializeSchemas                       *)
(***************************************************************************)
\* what a generator returns: the keys validateSchema looks at
SchemaObject(type) == [context |-> "https://schema.org", type |-> type]

\* the schemas array of initializeSchemas with the object each generator returns
schemas ==
    << [name |-> "LocalBusiness", id |-> "schema-local-business",
        schema |-> SchemaObject("LocalBusiness")],
       [name |-> "Organization", id |-> "schema-organization",
        schema |-> SchemaObject("Organization")],
       [name |-> "ProfessionalService", id |-> "schema-professional-service",
        schema |-> SchemaObject("ProfessionalService")],
       [name |-> "BreadcrumbList", id |-> "schema-breadcrumb",
        schema |-> SchemaObject("BreadcrumbList")] >>

\* validateSchema(schema): "" when it returns true, else the message it throws
validateSchema(schema) ==
    IF schema.context = "" THEN "Schema missing @context"
    ELSE IF schema.type = "" THEN "Schema missing @type"
    ELSE ""

\* the DOM calls of injectSchema can throw before the old script is removed
\* (getElementById) or after it (createElement, JSON.stringify, appendChild)
DomOutcomes == {"ok", "throwsEarly", "throwsLate"}

\* injectSchema(schema, id) with the DOM behaving as dom: the head's scripts
\* afterwards and "" when it returns, else the message of what it rethrows
injectSchema(id, dom) ==
    LET without == SelectSeq(headScripts, LAMBDA x : x # id) IN
    IF dom = "throwsEarly" THEN [scripts |-> headScripts, error |-> "DOM error"]
    ELSE IF dom = "throwsLate" THEN [scripts |-> without, error |-> "DOM error"]
    ELSE IF ~headPresent THEN [scripts |-> without, error |-> "Document head not found"]
    ELSE [scripts |-> Append(without, id), error |-> ""]

InitSchema ==
    /\ schemaPc = "idle"
    /\ schemaAt = 1
    /\ schemaResults = [success |-> TRUE, schemas |-> <<>>, errors |-> <<>>]
    /\ headPresent = TRUE
    /\ headScripts = <<>>
    /\ schemaRuns = 0

\* the try block ran to its end: results.schemas.push(...)
Pushed(res, s) ==
    [res EXCEPT !.schemas = Append(@, [name |-> s.name, id |-> s.id, success |-> TRUE])]

\* a catch that records the error and leaves results.success alone
CaughtKeepsSuccess(res, s, message) ==
    [res EXCEPT !.errors = Append(@, [name |-> s.name, id |-> s.id, error |-> message])]

\* the catch block: results.success = false; results.errors.push(...)
Caught(res, s, message) ==
    [res EXCEPT !.success = FALSE,
                !.errors = Append(@, [name |-> s.name, id |-> s.id, error |-> message])]

\* initializeSchemas is called (by init, or through module.exports): new results
InitializeSchemas ==
    /\ schemaPc # "each"
    /\ schemaRuns < MaxRuns
    /\ schemaPc' = "each"
    /\ schemaAt' = 1
    /\ schemaResults' = [success |-> TRUE, schemas |-> <<>>, errors |-> <<>>]
    /\ schemaRuns' = schemaRuns + 1
    /\ UNCHANGED <<headPresent, headScripts, buildVars, formVars, lazyVars, cardVars>>

\* one call of the forEach callback: generator, validateSchema, injectSchema
ForEachSchema ==
    /\ schemaPc = "each"
    /\ schemaAt <= Len(schemas)
    /\ LET s == schemas[schemaAt]
           invalid == validateSchema(s.schema)
       IN IF invalid # ""
          THEN /\ schemaResults' = Caught(schemaResults, s, invalid)
               /\ UNCHANGED headScripts
          ELSE \E dom \in DomOutcomes :
                 LET r == injectSchema(s.id, dom) IN
                 /\ headScripts' = r.scripts
                 /\ schemaResults' = IF r.error = ""
                                        THEN Pushed(schemaResults, s)
                                        ELSE Caught(schemaResults, s, r.error)
    /\ schemaAt' = schemaAt + 1
    /\ UNCHANGED <<schemaPc, headPresent, schemaRuns, buildVars, formVars, lazyVars, cardVars>>

\* the forEach is over: return results
ReturnResults ==
    /\ schemaPc = "each"
    /\ schemaAt > Len(schemas)
    /\ schemaPc' = "returned"
    /\ UNCHANGED <<schemaAt, schemaResults, headPresent, headScripts, schemaRuns,
                   buildVars, formVars, lazyVars, cardVars>>

\* between two calls another script removes the head, or puts one back
HeadChanges ==
    /\ schemaPc = "returned"
    /\ schemaRuns < MaxRuns
    /\ headPresent' = ~headPresent
    /\ headScripts' = <<>>
    /\ UNCHANGED <<schemaPc, schemaAt, schemaResults, schemaRuns,
                   buildVars, formVars, lazyVars, cardVars>>

NextSchema ==
    \/ InitializeSchemas
    \/ ForEachSchema
    \/ ReturnResults
    \/ HeadChanges

(***************************************************************************)
(* Claims about the structured data                                        *)
(***************************************************************************)
\* the ids recorded in a list of results.schemas or results.errors
IdsIn(list) == {list[i].id : i \in DOMAIN list}

\* C31: when initializeSchemas returns, all four schemas were attempted whatever
\* failed: results.schemas and results.errors hold four entries together, each
\* schema id is in exactly one of the two lists, and results.success is true
\* exactly when results.errors is empty.
C31_AllFourAttempted ==
    schemaPc = "returned" =>
      /\ Len(schemaResults.schemas) + Len(schemaResults.errors) = 4
      /\ \A i \in DOMAIN schemas :
           /\ Cardinality({j \in DOMAIN schemaResults.schemas :
                              schemaResults.schemas[j].id = schemas[i].id})
              + Cardinality({j \in DOMAIN schemaResults.errors :
                                schemaResults.errors[j].id = schemas[i].id}) = 1
      /\ IdsIn(schemaResults.schemas) \cap IdsIn(schemaResults.errors) = {}
      /\ schemaResults.success <=> (schemaResults.errors = <<>>)

\* a call returned after a failure in its first half and successes after it
C31_Witness ==
    /\ schemaPc = "returned"
    /\ Len(schemaResults.errors) = 2
    /\ schemaResults.errors[1].id = "schema-local-business"
    /\ Len(schemaResults.schemas) = 2
    /\ schemaResults.schemas[2].id = "schema-breadcrumb"

(***************************************************************************)
(* Service cards (js/animations.js): toggleCardExpansion                   *)
(***************************************************************************)
EXPANDABLE_CONTENT_CLASS == "service-card-expanded"

\* the .service-card elements of the page
Cards == {"card1", "card2", "card3"}

\* no toggle in the step before
NoToggle == [card |-> "", before |-> <<>>]

\* what the claim calls the state of a card: membership of state.expandedCards,
\* aria-expanded being 'true', and the expanded class
CardState(c) ==
    <<c \in expandedCards, ariaExpanded[c] = "true",
      EXPANDABLE_CONTENT_CLASS \in cardClasses[c]>>

\* the script has run while the document was loading: init waits for
\* DOMContentLoaded and window.LagosAnimations is set (on a parsed document init
\* runs at once, which is InitServiceCardInteractions as the first step);
\* card1 and card2 have expandable content, card3 has none
InitCards ==
    /\ isInitialized = FALSE
    /\ prefersReducedMotion = FALSE
    /\ expandedCards = {}
    /\ ariaExpanded = [c \in Cards |-> "absent"]
    /\ cardClasses = [c \in Cards |-> {}]
    /\ contentStyle = [c \in Cards |-> [maxHeight |-> "", opacity |-> ""]]
    /\ expandable = [c \in Cards |-> c # "card3"]
    /\ toggles = 0
    /\ lastToggle = NoToggle

\* DOMContentLoaded: init, with initReducedMotionListener's initial check and
\* initServiceCardInteractions
InitServiceCardInteractions ==
    /\ ~isInitialized
    /\ isInitialized' = TRUE
    /\ prefersReducedMotion' \in BOOLEAN
    /\ ariaExpanded' = [c \in Cards |-> "false"]
    /\ lastToggle' = NoToggle
    /\ UNCHANGED <<expandedCards, cardClasses, contentStyle, expandable, toggles,
                   buildVars, formVars, lazyVars, schemaVars>>

\* the media query's change event: handleChange
ReducedMotionChanges ==
    /\ isInitialized
    /\ prefersReducedMotion' = ~prefersReducedMotion
    /\ lastToggle' = NoToggle
    /\ UNCHANGED <<isInitialized, expandedCards, ariaExpanded, cardClasses, contentStyle,
                   expandable, toggles, buildVars, formVars, lazyVars, schemaVars>>

\* toggleCardExpansion(card), from a click, key or tap handler of the card or
\* through window.LagosAnimations.toggleCard
toggleCardExpansion(card) ==
    /\ toggles < MaxToggles
    /\ toggles' = toggles + 1
    /\ lastToggle' = [card |-> card, before |-> CardState(card)]
    /\ IF ~expandable[card]
       THEN UNCHANGED <<expandedCards, ariaExpanded, cardClasses, contentStyle>>
       ELSE IF card \in expandedCards
       THEN /\ cardClasses' = [cardClasses EXCEPT ![card] = @ \ {EXPANDABLE_CONTENT_CLASS}]
            /\ ariaExpanded' = [ariaExpanded EXCEPT ![card] = "false"]
            /\ expandedCards' = expandedCards \ {card}
            /\ contentStyle' = IF prefersReducedMotion THEN contentStyle
                                ELSE [contentStyle EXCEPT ![card] =
                                        [maxHeight |-> "0", opacity |-> "0"]]
       ELSE /\ cardClasses' = [cardClasses EXCEPT ![card] = @ \cup {EXPANDABLE_CONTENT_CLASS}]
            /\ ariaExpanded' = [ariaExpanded EXCEPT ![card] = "true"]
            /\ expandedCards' = expandedCards \cup {card}
            /\ contentStyle' = IF prefersReducedMotion THEN contentStyle
                                ELSE [contentStyle EXCEPT ![card] =
                                        [maxHeight |-> "scrollHeight", opacity |-> "1"]]
    /\ UNCHANGED <<isInitialized, prefersReducedMotion, expandable,
                   buildVars, formVars, lazyVars, schemaVars>>

ToggleCard == \E card \in Cards : toggleCardExpansion(card)

NextCards ==
    \/ InitServiceCardInteractions
    \/ ReducedMotionChanges
    \/ ToggleCard

(***************************************************************************)
(* Claims about the service cards                                          *)
(***************************************************************************)
\* C32 as stated: after a toggleCardExpansion call on a card with expandable
\* content the card is in state.expandedCards exactly when aria-expanded is
\* 'true' and it carries the service-card-expanded class; two consecutive toggles
\* restore the previous state; a card without expandable content is unchanged.
C32_ToggleConsistent ==
    /\ [][\A c \in Cards :
            (toggleCardExpansion(c) /\ expandable[c]) =>
              /\ (c \in expandedCards') <=>
                   (ariaExpanded'[c] = "true"
                      /\ EXPANDABLE_CONTENT_CLASS \in cardClasses'[c])
              /\ lastToggle.card = c => CardState(c)' = lastToggle.before]_vars
    /\ [][\A c \in Cards :
            (toggleCardExpansion(c) /\ ~expandable[c]) =>
              UNCHANGED <<expandedCards, ariaExpanded, cardClasses, contentStyle>>]_vars

(***************************************************************************)
(* Specifications                                                          *)
(***************************************************************************)
\* the build pipeline, over every source tree of the bounds
Init == InitBuild /\ InitForm /\ InitLazy /\ InitSchema /\ InitCards

Spec == Init /\ [][NextBuild]_vars

\* the contact form of a page, from page load
InitPage ==
    /\ InitForm
    /\ InitBuild
    /\ tree = {}
    /\ srcReadable
    /\ ~globStrict
    /\ dirs = {}
    /\ InitLazy
    /\ InitSchema
    /\ InitCards

SpecForm == InitPage /\ [][NextForm]_vars

\* the contact form with time passing and the abort timer firing when it is due;
\* nothing makes the server answer, or finish an answer it began
SpecFormLive == SpecForm /\ WF_vars(ClockTick) /\ WF_vars(TimeoutAborts)

\* the lazy loader of a page, from the construction of the manager
SpecLazy == InitPage /\ [][NextLazy]_vars

\* the structured data of a page, from the load of the script
SpecSchema == InitPage /\ [][NextSchema]_vars

\* the service cards of a page, from the load of the script
SpecCards == InitPage /\ [][NextCards]_vars

====
